---- MODULE Spec2Model ----
(***************************************************************************)
(* Model of the frame-extraction script bin/temp_20260228041626.py:        *)
(* create the output folder, open the video, read frames until cap.read()  *)
(* reports no frame, write each frame as frame_NNNN.png, release the       *)
(* capture and print the number of frames.                                 *)
(*                                                                         *)
(* The script is one sequential process; pc is the statement about to run. *)
(* The file system (dirState, disk) and the video behind video_path are    *)
(* the environment: they outlive a process, so a second invocation of the  *)
(* script (Restart) sees what the first one left behind.                   *)
(***************************************************************************)
EXTENDS Integers, Sequences, FiniteSets

\* ---------------------------------------------------------------- bounds
MaxFrames == 3      \* longest video of the main specification
MaxRuns == 2        \* invocations of the script on the same output folder
MaxProbe == 11      \* SpecFmt formats every index in 0..MaxProbe, and Boundary

\* ------------------------------------------------------- program constants
video_path == "H:\\H_downloads\\github--banner.mp4"
output_folder == "H:\\H_downloads\\allpng"
PadWidth == 4       \* the 04 of {frame_count:04d}

VARIABLES
    pc,            \* statement the process is about to execute
    run,           \* which invocation of the script this is
    dirState,      \* what is at output_folder: "absent", "dir" or "file"
    disk,          \* files in output_folder: set of [name, content]
    video,         \* what is at video_path: [openable, frames]
    cap,           \* the cv2.VideoCapture object
    frame_count,
    ret,
    frame,
    output_path,
    stdout,        \* lines printed by this invocation
    log,           \* library calls made by this invocation, in order
    probe          \* SpecFmt only: two frame indices and what line 20-21 do with them

vars == <<pc, run, dirState, disk, video, cap, frame_count, ret, frame,
          output_path, stdout, log, probe>>

NoFrame == -1 \* the None that cap.read() returns with ret = False
NoPath == <<>>

\* ------------------------------------------------------ f"{n:04d}" and paths
DigitChar == <<"0", "1", "2", "3", "4", "5", "6", "7", "8", "9">>

RECURSIVE decimal(_)
decimal(n) == IF n < 10 THEN <<n>> ELSE Append(decimal(n \div 10), n % 10)

RECURSIVE zfill(_, _)
zfill(s, w) == IF Len(s) >= w THEN s ELSE zfill(<<0>> \o s, w)

\* mutant: a fixed-width field that keeps the low PadWidth digits only
RECURSIVE low_digits(_, _)
low_digits(n, w) == IF w = 0 THEN <<>> ELSE Append(low_digits(n \div 10, w - 1), n % 10)
format_04d_truncating(n) == low_digits(n, PadWidth)

\* {frame_count:04d}: decimal digits, zero-padded to a minimum width of 4
format_04d(n) == zfill(decimal(n), PadWidth)

\* f"frame_{frame_count:04d}.png"
frame_name(n) ==
    LET d == format_04d(n)
    IN <<"frame_">> \o [i \in 1..Len(d) |-> DigitChar[d[i] + 1]] \o <<".png">>

\* os.path.join(output_folder, f"frame_{frame_count:04d}.png")
output_path_of(n) == <<output_folder, "\\">> \o frame_name(n)

\* a file written at path p replaces whatever was at p
WriteFile(d, p, content) ==
    {f \in d : f.name # p} \cup {[name |-> p, content |-> content]}

\* ------------------------------------------------------------ library calls
Ev(op, idx, fr, path, res) ==
    [op |-> op, idx |-> idx, frame |-> fr, path |-> path, res |-> res]

\* mutant: os.makedirs(output_folder) without exist_ok=True
makedirs_no_exist_ok(d) ==
    IF d = "absent"
    THEN {[dir |-> "dir", res |-> "created"], [dir |-> "absent", res |-> "raised"]}
    ELSE {[dir |-> d, res |-> "raised"]}

\* mutant: the OSError of os.makedirs is swallowed and the script goes on
makedirs_swallowing(d) ==
    IF d = "dir" THEN {[dir |-> "dir", res |-> "existed"]}
    ELSE IF d = "absent"
    THEN {[dir |-> "dir", res |-> "created"], [dir |-> "absent", res |-> "ignored"]}
    ELSE {[dir |-> d, res |-> "ignored"]}

\* os.makedirs(output_folder, exist_ok=True): the outcomes for each thing that
\* can be at the path.  An existing directory is left alone; a missing one is
\* created or OSError is raised (unwritable parent); a regular file at the
\* path raises FileExistsError even with exist_ok.
makedirs(d) ==
    IF d = "dir" THEN {[dir |-> "dir", res |-> "existed"]}
    ELSE IF d = "absent"
    THEN {[dir |-> "dir", res |-> "created"], [dir |-> "absent", res |-> "raised"]}
    ELSE {[dir |-> d, res |-> "raised"]}

\* cv2.imwrite(path, img): the file is written and True returned; or the file
\* cannot be written and False is returned; or cv2.error is raised (no PNG
\* writer in the build).  Nothing can be written into a folder that is not there.
imwrite_results(d) ==
    IF d = "dir" THEN {"ok", "false", "raised"} ELSE {"false", "raised"}

NoCap == [created |-> FALSE, opened |-> FALSE, pos |-> 0, released |-> 0]

Videos ==
    {[openable |-> TRUE, frames |-> n] : n \in 0..MaxFrames}
        \cup {[openable |-> FALSE, frames |-> 0]}

NoProbe == [i |-> 0, j |-> 0, names |-> <<>>, disk |-> {}]

\* ------------------------------------------------------------------- Init
ProcInit ==
    /\ pc = "makedirs"
    /\ cap = NoCap
    /\ frame_count = 0
    /\ ret = FALSE
    /\ frame = NoFrame
    /\ output_path = NoPath
    /\ stdout = <<>>
    /\ log = <<>>

Init ==
    /\ ProcInit
    /\ run = 1
    /\ dirState \in {"absent", "dir", "file"}
    /\ disk = {}
    /\ video \in Videos
    /\ probe = NoProbe

\* ---------------------------------------------------------------- actions
\* line 8
MakeDirs ==
    /\ pc = "makedirs"
    /\ \E o \in makedirs(dirState) :
        /\ dirState' = o.dir
        /\ log' = Append(log, Ev("makedirs", -1, NoFrame, NoPath, o.res))
        /\ pc' = IF o.res = "raised" THEN "aborted" ELSE "open"
    /\ UNCHANGED <<run, disk, video, cap, frame_count, ret, frame,
                   output_path, stdout, probe>>

\* lines 11-13: VideoCapture never raises on a path it cannot open; the
\* object is created with isOpened() false.
Open ==
    /\ pc = "open"
    /\ cap' = [created |-> TRUE, opened |-> video.openable, pos |-> 0, released |-> 0]
    /\ frame_count' = 0
    /\ log' = Append(log, Ev("VideoCapture", -1, NoFrame, NoPath,
                             IF video.openable THEN "opened" ELSE "not opened"))
    /\ pc' = "read"
    /\ UNCHANGED <<run, dirState, disk, video, ret, frame, output_path,
                   stdout, probe>>

\* lines 15-18: a frame is returned while the capture is open and frames
\* remain; otherwise (False, None) and the loop is left.
Read ==
    /\ pc = "read"
    /\ IF cap.opened /\ cap.released = 0 /\ cap.pos < video.frames
       THEN /\ ret' = TRUE
            /\ frame' = cap.pos
            /\ cap' = [cap EXCEPT !.pos = @ + 1]
            /\ log' = Append(log, Ev("read", -1, cap.pos, NoPath, "frame"))
            /\ pc' = "write"
       ELSE /\ ret' = FALSE
            /\ frame' = NoFrame
            /\ cap' = cap
            /\ log' = Append(log, Ev("read", -1, NoFrame, NoPath, "no frame"))
            /\ pc' = "release"
    /\ UNCHANGED <<run, dirState, disk, video, frame_count, output_path,
                   stdout, probe>>

\* lines 20-21 with index n; the result of imwrite is not looked at
WriteAt(n) ==
    /\ pc = "write"
    /\ LET p == output_path_of(n)
       IN /\ output_path' = p
          /\ \E res \in imwrite_results(dirState) :
               /\ disk' = IF res = "ok" THEN WriteFile(disk, p, frame) ELSE disk
               /\ log' = Append(log, Ev("imwrite", n, frame, p, res))
               /\ pc' = IF res = "raised" THEN "aborted" ELSE "incr"
    /\ UNCHANGED <<run, dirState, video, cap, frame_count, ret, frame,
                   stdout, probe>>

\* mutant: the counter is advanced before the path is formatted
Write_preincrement == WriteAt(frame_count + 1)

Write == WriteAt(frame_count)

IncrBy(k) ==
    /\ pc = "incr"
    /\ frame_count' = frame_count + k
    /\ pc' = "read"
    /\ UNCHANGED <<run, dirState, disk, video, cap, ret, frame, output_path,
                   stdout, log, probe>>

\* mutant: frame_count += 2
Incr_twice == IncrBy(2)

\* line 23
Incr == IncrBy(1)

\* line 25
Release ==
    /\ pc = "release"
    /\ cap' = [cap EXCEPT !.released = @ + 1]
    /\ log' = Append(log, Ev("release", -1, NoFrame, NoPath, "ok"))
    /\ pc' = "print"
    /\ UNCHANGED <<run, dirState, disk, video, frame_count, ret, frame,
                   output_path, stdout, probe>>

Done(n) == [text |-> "Done! Extracted {} frames.", count |-> n]

\* line 27
Report ==
    /\ pc = "print"
    /\ stdout' = Append(stdout, Done(frame_count))
    /\ log' = Append(log, Ev("print", frame_count, NoFrame, NoPath, "ok"))
    /\ pc' = "done"
    /\ UNCHANGED <<run, dirState, disk, video, cap, frame_count, ret, frame,
                   output_path, probe>>

\* the script is invoked again: a new process, the same paths
Restart ==
    /\ pc \in {"done", "aborted"}
    /\ run < MaxRuns
    /\ run' = run + 1
    /\ pc' = "makedirs"
    /\ cap' = NoCap
    /\ frame_count' = 0
    /\ ret' = FALSE
    /\ frame' = NoFrame
    /\ output_path' = NoPath
    /\ stdout' = <<>>
    /\ log' = <<>>
    /\ UNCHANGED <<dirState, disk, video, probe>>

Next ==
    \/ MakeDirs
    \/ Open
    \/ Read
    \/ Write
    \/ Incr
    \/ Release
    \/ Report
    \/ Restart

Spec == Init /\ [][Next]_vars

\* ------------------------------------------- lines 20-21 at arbitrary indices
\* A video long enough to reach index 10000 is out of reach of Spec, so the
\* naming of line 20 and the write of line 21 are also run on pairs of indices
\* i, j drawn from the small indices and from the values around each change of
\* width.
Boundary == {99, 100, 999, 1000, 9999, 10000, 10001, 19999, 99999, 100000}
FmtInputs == (0..MaxProbe) \cup Boundary

InitFmt ==
    /\ ProcInit
    /\ run = 1
    /\ dirState = "dir"
    /\ disk = {}
    /\ video = [openable |-> TRUE, frames |-> 0]
    /\ probe \in {[i |-> a, j |-> b, names |-> <<>>, disk |-> {}] :
                    a \in FmtInputs, b \in FmtInputs}

\* frame i is written, then frame j
ProbeWrite ==
    /\ Len(probe.names) < 2
    /\ LET n == IF probe.names = <<>> THEN probe.i ELSE probe.j
           p == output_path_of(n)
       IN probe' = [probe EXCEPT !.names = Append(@, p),
                                 !.disk = WriteFile(@, p, n)]
    /\ UNCHANGED <<pc, run, dirState, disk, video, cap, frame_count, ret,
                   frame, output_path, stdout, log>>

NextFmt == ProbeWrite

SpecFmt == InitFmt /\ [][NextFmt]_vars

\* ------------------------------------------------------- reading the history
IsWrite(e) == e.op = "imwrite"
IsDecoded(e) == e.op = "read" /\ e.res = "frame"
IsRead(e) == e.op = "read"

Writes == SelectSeq(log, IsWrite)
Decoded == SelectSeq(log, IsDecoded)
Reads == SelectSeq(log, IsRead)

\* paths at which this run's imwrite calls wrote a file
Created == {log[p].path : p \in {q \in 1..Len(log) : IsWrite(log[q]) /\ log[q].res = "ok"}}

FailedWrites == {p \in 1..Len(log) : IsWrite(log[p]) /\ log[p].res # "ok"}

Range(s) == {s[i] : i \in 1..Len(s)}

\* the number a decimal string stands for, read left to right
CharDigit(c) == CHOOSE d \in 0..9 : DigitChar[d + 1] = c

RECURSIVE DecimalValue(_)
DecimalValue(cs) ==
    IF cs = <<>> THEN 0
    ELSE 10 * DecimalValue(SubSeq(cs, 1, Len(cs) - 1)) + CharDigit(cs[Len(cs)])

\* <output_folder> \ frame_ <index field> .png
IndexField(path) == SubSeq(path, 4, Len(path) - 1)
WellFormed(path) ==
    /\ Len(path) >= 5
    /\ path[1] = output_folder
    /\ path[3] = "frame_"
    /\ path[Len(path)] = ".png"
    /\ \A k \in 4..(Len(path) - 1) : path[k] \in Range(DigitChar)
IndexOf(path) == DecimalValue(IndexField(path))

Terminal == pc \in {"done", "aborted"}

\* ------------------------------------------------------------------ claims

\* C1: a completed run on a video of N decodable frames has created exactly N
\* image files, and the count it reports is N and is the number of files
\* written.
C1_CountEqualsFiles ==
    pc = "done" =>
        /\ stdout = <<Done(video.frames)>>
        /\ Cardinality(Created) = video.frames
        /\ stdout[1].count = Cardinality(Created)
        /\ \A k \in 0..(video.frames - 1) : \E f \in disk : IndexOf(f.name) = k

\* C2: when the video cannot be opened the run aborts: no frame file is
\* written, the run never reaches the successful end and never prints the
\* completion message.
C2_OpenFailureAborts ==
    (cap.created /\ ~cap.opened) =>
        /\ pc # "done"
        /\ stdout = <<>>
        /\ Writes = <<>>

\* C3: a failed write of frame k aborts the run: it is the last call of the
\* run, the frame index stays k, no completion message is printed, and the
\* files of frames 0..k-1 stay.
C3_WriteFailureAborts ==
    \A p \in FailedWrites :
        /\ p = Len(log)
        /\ pc = "aborted"
        /\ frame_count = log[p].idx
        /\ stdout = <<>>
        /\ \A q \in 1..(p - 1) :
             (IsWrite(log[q]) /\ log[q].res = "ok") =>
                 [name |-> log[q].path, content |-> log[q].frame] \in disk

\* C4: the k-th frame the source returns is the one written under index k,
\* writes are issued in increasing index order, every decoded frame has had its
\* write issued before the next decode call, and a file on disk holds the frame
\* whose decode position is the index in its name.
C4_OrderPreserved ==
    /\ \A i \in 1..Len(Writes) :
         /\ Writes[i].idx = i - 1
         /\ Writes[i].frame = i - 1
         /\ WellFormed(Writes[i].path)
         /\ IndexOf(Writes[i].path) = i - 1
    /\ \A p \in 1..Len(log) :
         IsRead(log[p]) =>
            Cardinality({q \in 1..(p - 1) : IsDecoded(log[q])})
                = Cardinality({q \in 1..(p - 1) : IsWrite(log[q])})
    /\ \A f \in disk : WellFormed(f.name) /\ IndexOf(f.name) = f.content

C4_Witness ==
    /\ pc = "done"
    /\ Len(Writes) >= 2
    /\ Cardinality(Created) >= 2

\* C5: two different frame indices get two different file names, so the
\* second write leaves the first file in place; the index field is at least
\* four digits wide and reads back as the index, also from 10000 on.
C5_NamesInjective ==
    /\ \A k \in 1..Len(probe.names) :
         LET n == IF k = 1 THEN probe.i ELSE probe.j
         IN /\ WellFormed(probe.names[k])
            /\ Len(IndexField(probe.names[k])) >= 4
            /\ IndexOf(probe.names[k]) = n
    /\ (Len(probe.names) = 2 /\ probe.i # probe.j) =>
         /\ probe.names[1] # probe.names[2]
         /\ probe.disk = {[name |-> probe.names[1], content |-> probe.i],
                          [name |-> probe.names[2], content |-> probe.j]}
         /\ Cardinality(probe.disk) = 2

C5_Witness ==
    /\ Len(probe.names) = 2
    /\ probe.i = 0
    /\ probe.j = 10000

\* C6: once the VideoCapture exists, every way the run ends has released it,
\* exactly once, and no decode call follows the release.
C6_ReleasedOnEveryExit ==
    /\ (Terminal /\ cap.created) => cap.released = 1
    /\ cap.released <= 1
    /\ \A p \in 1..Len(log) :
         log[p].op = "release" => \A q \in (p + 1)..Len(log) : ~IsRead(log[q])

\* C7: os.makedirs is the first call of a run: the source is opened, decoded
\* and written only after it made sure the folder is there; when it fails the
\* run is aborted with no other call made.
C7_DirBeforeOpen ==
    /\ (cap.created \/ Len(log) > 1) =>
         /\ log[1].op = "makedirs"
         /\ log[1].res \in {"existed", "created"}
         /\ dirState = "dir"
    /\ \A p \in 1..Len(log) : log[p].op = "makedirs" => p = 1
    /\ (log # <<>> /\ log[1].res \notin {"existed", "created"}) =>
         /\ pc = "aborted"
         /\ Len(log) = 1
         /\ ~cap.created
         /\ Created = {}

C7_Witness ==
    /\ pc = "aborted"
    /\ log = <<Ev("makedirs", -1, NoFrame, NoPath, "raised")>>
    /\ dirState = "absent"

\* C8: on a folder that is already there os.makedirs does not fail and
\* changes neither the folder nor its files, the run goes on to open the
\* source, and such a run does not end before a decode call was made.
C8_MakedirsIdempotent ==
    /\ [][(pc = "makedirs" /\ dirState = "dir") =>
             (pc' = "open" /\ dirState' = "dir" /\ disk' = disk)]_vars
    /\ []((log # <<>> /\ log[1].res = "existed" /\ Terminal) => Reads # <<>>)

C8_Witness ==
    /\ run = 2
    /\ disk # {}
    /\ log # <<>>
    /\ log[1].res = "existed"
    /\ Decoded # <<>>

\* C9: a successful run prints exactly one completion message, carrying the
\* final frame count, after the last write and after the release; a run that
\* did not finish successfully (source not opened, a write failed, aborted)
\* prints none.
C9_CompletionMessage ==
    /\ Len(stdout) <= 1
    /\ pc = "done" =>
         /\ stdout = <<Done(frame_count)>>
         /\ cap.released = 1
         /\ log[Len(log)].op = "print"
         /\ log[Len(log) - 1].op = "release"
    /\ stdout # <<>> =>
         /\ pc = "done"
         /\ cap.opened
         /\ FailedWrites = {}

\* C10: the frame index is 0 before the first decode, never decreases within
\* a run and changes only by +1, once per decoded frame; at the loop head it
\* is the number of frames decoded and the number of imwrite calls issued,
\* whose indices are exactly 0..frame_count-1; a decode that returns no frame
\* leaves it unchanged.
C10_LoopInvariant ==
    /\ [](pc = "read" =>
            /\ frame_count = Len(Decoded)
            /\ frame_count = Len(Writes)
            /\ {Writes[i].idx : i \in 1..Len(Writes)} = 0..(frame_count - 1))
    /\ [](Decoded = <<>> => frame_count = 0)
    /\ [][run' = run =>
            /\ frame_count' \in {frame_count, frame_count + 1}
            /\ (frame_count' = frame_count + 1 =>
                   Len(Decoded) = frame_count + 1 /\ ret)]_vars
    /\ [][(pc = "read" /\ ~ret') => frame_count' = frame_count]_vars

C10_Witness ==
    /\ pc = "read"
    /\ frame_count >= 2
    /\ Len(Decoded) = frame_count

====
